---- MODULE Spec2Model ----
(***************************************************************************)
(* Authentication and role-based authorisation layer of the FastAPI        *)
(* application: auth.py (registration, login, bearer-token verification),  *)
(* authorisation.py (roles, permissions, guards), main.py (guarded user    *)
(* endpoints) and models.py (the users table).                             *)
(*                                                                         *)
(* A request is a small process: its dependencies are resolved in the      *)
(* order FastAPI resolves them (token verification, then the sessions of   *)
(* the get_db dependencies, then the guard), then the handler body runs,   *)
(* then the exit stack closes the sessions.  The event loop may switch to  *)
(* another request wherever a get_db dependency is entered or left, so     *)
(* requests interleave between these steps.                                *)
(***************************************************************************)
EXTENDS Integers, FiniteSets, TLC

VARIABLES
    users,              \* rows of the "users" table (models.py)
    seq,                \* highest id the table has ever handed out
    ROLE_PERMISSIONS,   \* the module-level dict of authorisation.py
    now,                \* datetime.utcnow(), in milliseconds
    ticks,              \* number of clock advances so far
    issued,             \* tokens returned by login, each with its issue time
    req,                \* the requests in flight, one per slot
    sessions,           \* SessionLocal() sessions that are open: <<slot, module>>
    started,            \* number of requests accepted so far
    workers             \* how many requests the server handles at a time

vars == <<users, seq, ROLE_PERMISSIONS, now, ticks, issued, req, sessions, started,
         workers>>

----------------------------------------------------------------------------
(* Bounds of the model *)

MaxStarted == 5         \* requests accepted, one at a time
MaxOverlapped == 2      \* requests accepted, two at a time
MaxTicks == 4

Budget == IF workers = 1 THEN MaxStarted ELSE MaxOverlapped

Slots == {1, 2}
Usernames == {"root", "mod", "legacy", "eve"}
Passwords == {"pw", "guess"}       \* tried at login
NewPasswords == {"guess"}          \* chosen at registration
Salts == {"s1"}
UserIds == 1 .. 4

----------------------------------------------------------------------------
(* Enumerations: authorisation.py Role, Permission; models.py RoleEnum *)

ADMIN == "admin"
USER == "user"
MODERATOR == "moderator"
GUEST == "guest"
Role == {ADMIN, USER, MODERATOR, GUEST}

\* A NULL in the role column: the attribute is None on the loaded row.
None == "None"

READ_USERS == "read_users"
WRITE_USERS == "write_users"
DELETE_USERS == "delete_users"
READ_OWN_DATA == "read_own_data"
WRITE_OWN_DATA == "write_own_data"
MODERATE_CONTENT == "moderate_content"
ADMIN_ACCESS == "admin_access"
Permission == {READ_USERS, WRITE_USERS, DELETE_USERS, READ_OWN_DATA,
               WRITE_OWN_DATA, MODERATE_CONTENT, ADMIN_ACCESS}

RolePermissionsDict ==
    [r \in Role |->
        CASE r = ADMIN -> {READ_USERS, WRITE_USERS, DELETE_USERS, READ_OWN_DATA,
                           WRITE_OWN_DATA, MODERATE_CONTENT, ADMIN_ACCESS}
          [] r = MODERATOR -> {READ_USERS, READ_OWN_DATA, WRITE_OWN_DATA,
                               MODERATE_CONTENT}
          [] r = USER -> {READ_OWN_DATA, WRITE_OWN_DATA}
          [] r = GUEST -> {READ_OWN_DATA}]

----------------------------------------------------------------------------
(* Password hashing: pwd_context = CryptContext(schemes=["bcrypt"]) *)

\* pwd_context.hash(password): a bcrypt string embedding the scheme, a fresh
\* salt and the digest of (salt, password).
pwd_hash(password, salt) ==
    [scheme |-> "bcrypt", salt |-> salt, digest |-> <<salt, password>>]

\* pwd_context.verify(password, hashed): recompute with the embedded salt.
pwd_verify(password, hashed) ==
    /\ hashed.scheme = "bcrypt"
    /\ hashed.digest = <<hashed.salt, password>>

----------------------------------------------------------------------------
(* Tokens: jose.jwt with SECRET_KEY and HS256 *)

SECRET_KEY == "5d14e5c3"
ACCESS_TOKEN_EXPIRE == 20 * 60 * 1000       \* timedelta(minutes=20), in ms

\* calendar.timegm(dt.utctimetuple()): whole seconds, the fraction dropped.
timegm(ms) == ms \div 1000

\* HMAC of the claims under a key.
Sign(claims, key) == [key |-> key, over |-> claims]

\* jwt.encode: a datetime "exp" claim is converted to whole seconds, then the
\* claims are signed.
jwt_encode(to_encode, key) ==
    LET claims == [to_encode EXCEPT !.exp = timegm(@)]
    IN  [form |-> "jwt", claims |-> claims, sig |-> Sign(claims, key)]

create_access_token(username, user_id, expires_delta, clock) ==
    jwt_encode([sub |-> username, id |-> user_id, exp |-> clock + expires_delta],
               SECRET_KEY)

\* What a client can put in the Authorization header besides an issued token.
NoClaims == [sub |-> "", id |-> 0, exp |-> 0]
NoToken == [form |-> "absent", claims |-> NoClaims, sig |-> Sign(NoClaims, "")]
Malformed == [form |-> "garbage", claims |-> NoClaims, sig |-> Sign(NoClaims, "")]
ForgedClaims == [sub |-> "root", id |-> 1, exp |-> timegm(10 * ACCESS_TOKEN_EXPIRE)]
Forged == [form |-> "jwt", claims |-> ForgedClaims, sig |-> Sign(ForgedClaims, "attacker")]

\* jwt.decode with the signature check left out (options verify_signature off)
jwt_decode_unverified(token, key, clock) ==
    IF token.form # "jwt" THEN [ok |-> FALSE, error |-> "JWTError"]
    ELSE IF token.claims.exp < timegm(clock)
         THEN [ok |-> FALSE, error |-> "ExpiredSignatureError"]
    ELSE [ok |-> TRUE, error |-> ""]

\* jwt.decode with the expiry check left out (options verify_exp off)
jwt_decode_no_exp(token, key, clock) ==
    IF token.form # "jwt" THEN [ok |-> FALSE, error |-> "JWTError"]
    ELSE IF token.sig # Sign(token.claims, key)
         THEN [ok |-> FALSE, error |-> "JWTError"]
    ELSE [ok |-> TRUE, error |-> ""]

\* jwt.decode: structure, signature, then exp against the clock
\* (jose raises ExpiredSignatureError when exp < timegm(utcnow())).
jwt_decode(token, key, clock) ==
    IF token.form # "jwt" THEN [ok |-> FALSE, error |-> "JWTError"]
    ELSE IF token.sig # Sign(token.claims, key)
         THEN [ok |-> FALSE, error |-> "JWTError"]
    ELSE IF token.claims.exp < timegm(clock)
         THEN [ok |-> FALSE, error |-> "ExpiredSignatureError"]
    ELSE [ok |-> TRUE, error |-> ""]

NoUser == [username |-> "", id |-> 0]

\* oauth2_scheme, then get_current_user: the principal, or the 401 raised.
get_current_user(token, clock) ==
    IF token.form = "absent"
    THEN [status |-> 401, detail |-> "Not authenticated", user |-> NoUser]
    ELSE IF ~jwt_decode(token, SECRET_KEY, clock).ok
         THEN [status |-> 401, detail |-> "Could not validate credentials",
               user |-> NoUser]
    ELSE IF token.claims.sub = "" \/ token.claims.id = 0
         THEN [status |-> 401, detail |-> "Could not validate credentials",
               user |-> NoUser]
    ELSE [status |-> 200, detail |-> "",
          user |-> [username |-> token.claims.sub, id |-> token.claims.id]]

----------------------------------------------------------------------------
(* AuthorizationService *)

\* db.query(Users).filter(Users.id == user_id).first()
find_by_id(user_id) == {u \in users : u.id = user_id}

\* getattr(user, 'role', Role.USER): the default is used only when the object
\* has no such attribute; a Users row always has one (models.py), None when
\* the column is NULL.
getattr(obj, name, default) ==
    IF name \in DOMAIN obj THEN obj[name] ELSE default

get_user_role(user_id) ==
    LET user == find_by_id(user_id)
    IN  IF user = {} THEN GUEST
        ELSE getattr(CHOOSE u \in user : TRUE, "role", USER)

\* user_has_permission with the own-data permissions taken as a default
\* (ROLE_PERMISSIONS.get(user_role, ROLE_PERMISSIONS[Role.USER]))
user_has_permission_default_user(user_role, required_permission) ==
    LET user_permissions ==
            IF user_role \in DOMAIN ROLE_PERMISSIONS
            THEN ROLE_PERMISSIONS[user_role] ELSE ROLE_PERMISSIONS[USER]
    IN  required_permission \in user_permissions

\* ROLE_PERMISSIONS.get(user_role, [])
user_has_permission(user_role, required_permission) ==
    LET user_permissions ==
            IF user_role \in DOMAIN ROLE_PERMISSIONS
            THEN ROLE_PERMISSIONS[user_role] ELSE {}
    IN  required_permission \in user_permissions

\* user_can_access_resource with only the administrator treated as elevated
user_can_access_resource_admin_only(current_user_id, resource_user_id, user_role) ==
    IF current_user_id = resource_user_id THEN TRUE
    ELSE IF user_role \in {ADMIN} THEN TRUE
    ELSE FALSE

user_can_access_resource(current_user_id, resource_user_id, user_role) ==
    IF current_user_id = resource_user_id THEN TRUE
    ELSE IF user_role \in {ADMIN, MODERATOR} THEN TRUE
    ELSE FALSE

----------------------------------------------------------------------------
(* The users table and its sessions *)

\* db.query(Users).filter(Users.username == username).first()
find_by_username(username) == {u \in users : u.username = username}

MaxOf(S) == IF S = {} THEN 0 ELSE CHOOSE m \in S : \A x \in S : x <= m

\* id = Column(Integer, primary_key=True): the database assigns the key.  A
\* rowid table hands out the largest id in the table plus one; a sequence
\* hands out one more than it ever handed out.  Which one applies is the
\* engine's choice, so both can occur.
primary_key_values == {MaxOf({u.id : u \in users}) + 1, seq + 1}

\* Users(username=..., hashed_password=...): role takes the column default.
new_Users(id, username, hashed_password) ==
    [id |-> id, username |-> username, hashed_password |-> hashed_password,
     role |-> USER]

\* get_db, up to the yield: db = SessionLocal()
get_db_open(r, module) == sessions \cup {<<r, module>>}

\* get_db without try/finally: db.close() is skipped when the request raised
get_db_close_on_success(r, status) ==
    IF status >= 400 THEN sessions ELSE {s \in sessions : s[1] # r}

\* get_db, after the yield: finally: db.close().  Runs when the request's exit
\* stack unwinds, whatever the status.
get_db_close(r, status) == {s \in sessions : s[1] # r}

----------------------------------------------------------------------------
(* Requests *)

OpenKinds == {"create_user", "login_for_access_token"}
GuardedKinds == {"get_current_user_info", "get_all_users", "get_user_by_id",
                 "delete_user", "get_admin_stats", "get_moderator_dashboard"}
PathParamKinds == {"get_user_by_id", "delete_user"}
\* Endpoints whose guard is a dependency of authorisation.py
DependencyGuardKinds == {"get_current_user_info", "delete_user", "get_admin_stats",
                         "get_moderator_dashboard"}

Idle ==
    [kind |-> "idle", pc |-> "idle", token |-> NoToken, user_id |-> 0,
     username |-> "", password |-> "", user |-> NoUser, role |-> "",
     lookups |-> 0, ran |-> FALSE, status |-> 0, detail |-> "",
     access_token |-> NoToken]

\* raise HTTPException(status_code, detail) / return with status_code
Respond(q, status_code, detail) ==
    [q EXCEPT !.pc = "done", !.status = status_code, !.detail = detail]

\* catch_exceptions_middleware: any other exception becomes a 500
InternalServerError(q) == Respond(q, 500, "Internal Server Error")

\* Tokens a client can present
ClientTokens == {i.token : i \in issued} \cup {NoToken, Malformed, Forged}

\* A request for create_user or login_for_access_token arrives in a free slot:
\* its db_dependency (auth.py get_db) opens a session.
auth_db_dependency(r, kind, username, password) ==
    /\ req[r].pc = "idle"
    /\ r <= workers
    /\ \A q \in Slots : q < r => req[q].pc # "idle"
    /\ started < Budget
    /\ kind \in OpenKinds
    /\ sessions' = get_db_open(r, "authentication")
    /\ req' = [req EXCEPT ![r] =
                  [Idle EXCEPT !.kind = kind, !.pc = "handler",
                               !.username = username, !.password = password]]
    /\ started' = started + 1
    /\ UNCHANGED <<users, seq, ROLE_PERMISSIONS, now, ticks, issued, workers>>

\* A request for a guarded endpoint arrives in a free slot.  Its first
\* dependency is Depends(get_current_user), which runs at once; on success the
\* next dependency, a get_db, opens its session.
user_dependency(r, kind, token, user_id) ==
    /\ req[r].pc = "idle"
    /\ r <= workers
    /\ \A q \in Slots : q < r => req[q].pc # "idle"
    /\ started < Budget
    /\ kind \in GuardedKinds
    /\ LET q == [Idle EXCEPT !.kind = kind, !.token = token, !.user_id = user_id]
           res == get_current_user(token, now)
       IN  IF res.status = 401
           THEN /\ req' = [req EXCEPT ![r] = Respond(q, 401, res.detail)]
                /\ UNCHANGED sessions
           ELSE /\ req' = [req EXCEPT ![r] =
                              [q EXCEPT !.user = res.user,
                                        !.pc = IF kind \in DependencyGuardKinds
                                               THEN "guard" ELSE "handler"]]
                /\ sessions' = get_db_open(r,
                                   IF kind \in DependencyGuardKinds
                                   THEN "authorisation" ELSE "main")
    /\ started' = started + 1
    /\ UNCHANGED <<users, seq, ROLE_PERMISSIONS, now, ticks, issued, workers>>

----------------------------------------------------------------------------
(* Guards: dependencies of authorisation.py.  Each runs with its own session, *)
(* reads the role once, and on success the handler's own get_db opens.       *)

\* AuthorizationService.get_user_role(user['id'], db), as a step of request q
LookUpRole(q) ==
    [q EXCEPT !.role = get_user_role(q.user.id), !.lookups = @ + 1]

get_current_user_with_role(r) ==
    /\ req[r].pc = "guard"
    /\ req[r].kind = "get_current_user_info"
    /\ LET q == LookUpRole(req[r])
       IN  req' = [req EXCEPT ![r] =
                      IF q.role = None
                      THEN InternalServerError(q)       \* None.value
                      ELSE [q EXCEPT !.pc = "handler"]]
    /\ UNCHANGED <<users, seq, ROLE_PERMISSIONS, now, ticks, issued, sessions, started, workers>>

require_admin_access(r) ==
    /\ req[r].pc = "guard"
    /\ req[r].kind \in {"delete_user", "get_admin_stats"}
    /\ LET q == LookUpRole(req[r])
       IN  IF ~user_has_permission(q.role, ADMIN_ACCESS)
           THEN /\ req' = [req EXCEPT ![r] = Respond(q, 403, "Admin access required")]
                /\ UNCHANGED sessions
           ELSE /\ req' = [req EXCEPT ![r] = [q EXCEPT !.pc = "handler"]]
                /\ sessions' = get_db_open(r, "main")
    /\ UNCHANGED <<users, seq, ROLE_PERMISSIONS, now, ticks, issued, started, workers>>

require_moderator_access(r) ==
    /\ req[r].pc = "guard"
    /\ req[r].kind = "get_moderator_dashboard"
    /\ LET q == LookUpRole(req[r])
       IN  IF q.role \notin {ADMIN, MODERATOR}
           THEN /\ req' = [req EXCEPT ![r] =
                              Respond(q, 403, "Moderator access or higher required")]
                /\ UNCHANGED sessions
           ELSE /\ req' = [req EXCEPT ![r] = [q EXCEPT !.pc = "handler"]]
                /\ sessions' = get_db_open(r, "main")
    /\ UNCHANGED <<users, seq, ROLE_PERMISSIONS, now, ticks, issued, started, workers>>

\* check_resource_access(resource_user_id)._check_access: the status it answers
\* for a verified principal (no route uses it).
check_resource_access(user, resource_user_id) ==
    LET user_role == get_user_role(user.id)
    IN  IF ~user_can_access_resource(user.id, resource_user_id, user_role)
        THEN 403 ELSE 200

----------------------------------------------------------------------------
(* Handlers of auth.py *)

\* The username column without unique=True
username_taken_never(username) == FALSE

\* username = Column(String, unique=True): the insert violates the constraint
username_taken(username) == find_by_username(username) # {}

create_user(r) ==
    /\ req[r].pc = "handler"
    /\ req[r].kind = "create_user"
    /\ LET q == [req[r] EXCEPT !.ran = TRUE]
       IN  IF username_taken(q.username)
           THEN \* db.commit() raises IntegrityError
                /\ req' = [req EXCEPT ![r] = InternalServerError(q)]
                /\ UNCHANGED <<users, seq>>
           ELSE \E salt \in Salts, id \in primary_key_values :
                /\ users' = users \cup
                       {new_Users(id, q.username, pwd_hash(q.password, salt))}
                /\ seq' = IF id > seq THEN id ELSE seq
                /\ req' = [req EXCEPT ![r] = Respond(q, 201, "")]
    /\ UNCHANGED <<ROLE_PERMISSIONS, now, ticks, issued, sessions, started, workers>>

\* authenticate_user with the password check left out
authenticate_user_no_verify(username, password) == find_by_username(username)

\* The user row, or nothing (False)
authenticate_user(username, password) ==
    LET user == find_by_username(username)
    IN  IF user = {} THEN {}
        ELSE IF ~pwd_verify(password, (CHOOSE u \in user : TRUE).hashed_password)
             THEN {}
        ELSE user

login_for_access_token(r) ==
    /\ req[r].pc = "handler"
    /\ req[r].kind = "login_for_access_token"
    /\ LET q == [req[r] EXCEPT !.ran = TRUE]
           user == authenticate_user(q.username, q.password)
       IN  IF user = {}
           THEN /\ req' = [req EXCEPT ![r] =
                              Respond(q, 401, "Incorrect username or password")]
                /\ UNCHANGED issued
           ELSE LET u == CHOOSE u \in user : TRUE
                    token == create_access_token(u.username, u.id,
                                                 ACCESS_TOKEN_EXPIRE, now)
                IN  /\ req' = [req EXCEPT ![r] =
                                  [Respond(q, 200, "") EXCEPT !.access_token = token]]
                    /\ issued' = issued \cup {[token |-> token, iat |-> now]}
    /\ UNCHANGED <<users, seq, ROLE_PERMISSIONS, now, ticks, sessions, started, workers>>

----------------------------------------------------------------------------
(* Handlers of main.py *)

get_current_user_info(r) ==
    /\ req[r].pc = "handler"
    /\ req[r].kind = "get_current_user_info"
    /\ req' = [req EXCEPT ![r] = Respond([@ EXCEPT !.ran = TRUE], 200, "")]
    /\ UNCHANGED <<users, seq, ROLE_PERMISSIONS, now, ticks, issued, sessions, started, workers>>

get_all_users(r) ==
    /\ req[r].pc = "handler"
    /\ req[r].kind = "get_all_users"
    /\ LET q == LookUpRole(req[r])
       IN  req' = [req EXCEPT ![r] =
                      IF ~user_has_permission(q.role, READ_USERS)
                      THEN Respond(q, 403, "Permission to read users required")
                      ELSE IF \E u \in users : u.role = None
                           THEN InternalServerError([q EXCEPT !.ran = TRUE])  \* u.role.value
                      ELSE Respond([q EXCEPT !.ran = TRUE], 200, "")]
    /\ UNCHANGED <<users, seq, ROLE_PERMISSIONS, now, ticks, issued, sessions, started, workers>>

get_user_by_id(r) ==
    /\ req[r].pc = "handler"
    /\ req[r].kind = "get_user_by_id"
    /\ LET q == LookUpRole(req[r])
           db_user == find_by_id(q.user_id)
       IN  req' = [req EXCEPT ![r] =
                      IF ~user_can_access_resource(q.user.id, q.user_id, q.role)
                      THEN Respond(q, 403, "Access denied to this resource")
                      ELSE IF db_user = {}
                           THEN Respond([q EXCEPT !.ran = TRUE], 404, "User not found")
                      ELSE IF (CHOOSE u \in db_user : TRUE).role = None
                           THEN InternalServerError([q EXCEPT !.ran = TRUE])
                      ELSE Respond([q EXCEPT !.ran = TRUE], 200, "")]
    /\ UNCHANGED <<users, seq, ROLE_PERMISSIONS, now, ticks, issued, sessions, started, workers>>

\* delete_user without its self-deletion check
deleting_yourself_unchecked(db_user, admin_user) == FALSE

\* if db_user.id == admin_user['id']
deleting_yourself(db_user, admin_user) == db_user.id = admin_user.id

delete_user(r) ==
    /\ req[r].pc = "handler"
    /\ req[r].kind = "delete_user"
    /\ LET q == [req[r] EXCEPT !.ran = TRUE]
           db_user == find_by_id(q.user_id)
       IN  IF db_user = {}
           THEN /\ req' = [req EXCEPT ![r] = Respond(q, 404, "User not found")]
                /\ UNCHANGED users
           ELSE IF deleting_yourself(CHOOSE u \in db_user : TRUE, q.user)
                THEN /\ req' = [req EXCEPT ![r] = Respond(q, 400, "Cannot delete yourself")]
                     /\ UNCHANGED users
           ELSE /\ users' = users \ db_user          \* db.delete; db.commit
                /\ req' = [req EXCEPT ![r] = Respond(q, 200, "deleted successfully")]
    /\ UNCHANGED <<seq, ROLE_PERMISSIONS, now, ticks, issued, sessions, started, workers>>

get_admin_stats(r) ==
    /\ req[r].pc = "handler"
    /\ req[r].kind = "get_admin_stats"
    /\ req' = [req EXCEPT ![r] = Respond([@ EXCEPT !.ran = TRUE], 200, "")]
    /\ UNCHANGED <<users, seq, ROLE_PERMISSIONS, now, ticks, issued, sessions, started, workers>>

get_moderator_dashboard(r) ==
    /\ req[r].pc = "handler"
    /\ req[r].kind = "get_moderator_dashboard"
    /\ req' = [req EXCEPT ![r] = Respond([@ EXCEPT !.ran = TRUE], 200, "")]
    /\ UNCHANGED <<users, seq, ROLE_PERMISSIONS, now, ticks, issued, sessions, started, workers>>

----------------------------------------------------------------------------
(* End of a request, and the clock *)

\* The response is out and the exit stack unwinds: every get_db of this
\* request runs its finally block.  The slot is free again.
EndRequest(r) ==
    /\ req[r].pc = "done"
    /\ sessions' = get_db_close(r, req[r].status)
    /\ req' = [req EXCEPT ![r] = Idle]
    /\ UNCHANGED <<users, seq, ROLE_PERMISSIONS, now, ticks, issued, started, workers>>

\* Between 0 and one second past the expiry of a token issued at time 0
MaxClock == ACCESS_TOKEN_EXPIRE + 2 * 1000

Tick(d) ==
    /\ ticks < MaxTicks
    /\ now + d <= MaxClock
    /\ now' = now + d
    /\ ticks' = ticks + 1
    /\ UNCHANGED <<users, seq, ROLE_PERMISSIONS, issued, req, sessions, started, workers>>

----------------------------------------------------------------------------
(* Specifications *)

\* The table as the application finds it: an administrator, a moderator and
\* a row written before the role column was filled in (role NULL).
SeedUsers ==
    {[id |-> 1, username |-> "root", hashed_password |-> pwd_hash("pw", "s1"),
      role |-> ADMIN],
     [id |-> 2, username |-> "mod", hashed_password |-> pwd_hash("pw", "s1"),
      role |-> MODERATOR],
     [id |-> 3, username |-> "legacy", hashed_password |-> pwd_hash("pw", "s1"),
      role |-> None]}

Init ==
    /\ users = SeedUsers
    /\ seq = MaxOf({u.id : u \in SeedUsers})
    /\ ROLE_PERMISSIONS = RolePermissionsDict
    /\ now = 0
    /\ ticks = 0
    /\ issued = {}
    /\ req = [r \in Slots |-> Idle]
    /\ sessions = {}
    /\ started = 0
    /\ workers \in Slots

\* Clock advances of the main specification: past every expiry at once
CoarseSteps == {ACCESS_TOKEN_EXPIRE + 1000}

Step(r) ==
    \/ get_current_user_with_role(r)
    \/ require_admin_access(r)
    \/ require_moderator_access(r)
    \/ create_user(r)
    \/ login_for_access_token(r)
    \/ get_current_user_info(r)
    \/ get_all_users(r)
    \/ get_user_by_id(r)
    \/ delete_user(r)
    \/ get_admin_stats(r)
    \/ get_moderator_dashboard(r)
    \/ EndRequest(r)

Next ==
    \/ \E r \in Slots, kind \in GuardedKinds, token \in ClientTokens :
          \E user_id \in (IF kind \in PathParamKinds THEN UserIds ELSE {0}) :
              user_dependency(r, kind, token, user_id)
    \/ \E r \in Slots, username \in Usernames, password \in NewPasswords :
          auth_db_dependency(r, "create_user", username, password)
    \/ \E r \in Slots, username \in Usernames, password \in Passwords :
          auth_db_dependency(r, "login_for_access_token", username, password)
    \/ \E r \in Slots : Step(r)
    \/ \E d \in CoarseSteps : Tick(d)

Spec == Init /\ [][Next]_vars

\* The expiry boundary: one slot, logins and get_current_user_info requests
\* with the tokens they returned,
\* and a clock that moves by a millisecond, by the rest of a second, or to
\* the millisecond before a token issued now expires.
FineSteps == {1, 999, ACCESS_TOKEN_EXPIRE - 1}

InitExpiry == Init /\ workers = 1

NextExpiry ==
    \/ \E i \in issued :
          user_dependency(1, "get_current_user_info", i.token, 0)
    \/ auth_db_dependency(1, "login_for_access_token", "root", "pw")
    \/ login_for_access_token(1)
    \/ get_current_user_with_role(1)
    \/ get_current_user_info(1)
    \/ EndRequest(1)
    \/ \E d \in FineSteps : Tick(d)

SpecExpiry == InitExpiry /\ [][NextExpiry]_vars

----------------------------------------------------------------------------
(* Vocabulary of the properties *)

\* Request r arrives in this step / takes a step
Arrives(r) == req[r].pc = "idle" /\ req'[r].pc # "idle"
Acts(r) == req'[r] # req[r]
\* Request r reads the role in this step
ReadsRole(r) == req'[r].lookups = req[r].lookups + 1

Accepted(q) == q.pc \in {"guard", "handler"} /\ q.user # NoUser
Rejected(q, status_code) == q.pc = "done" /\ q.status = status_code

----------------------------------------------------------------------------
(* C2: token expiry *)

----------------------------------------------------------------------------
(* C1: fail closed *)

\* The bearer token is missing, malformed, wrongly signed or expired
BadToken(t, clock) ==
    \/ t.form = "absent"
    \/ t.form = "garbage"
    \/ t.sig.key # SECRET_KEY
    \/ t.sig.over # t.claims
    \/ t.claims.exp < clock \div 1000

\* What each guarded endpoint asks of the caller's role
GuardSatisfied(q) ==
    CASE q.kind = "get_current_user_info" -> TRUE
      [] q.kind = "get_all_users" -> q.role \in {"admin", "moderator"}
      [] q.kind = "get_user_by_id" ->
            q.user.id = q.user_id \/ q.role \in {"admin", "moderator"}
      [] q.kind \in {"delete_user", "get_admin_stats"} -> q.role = "admin"
      [] q.kind = "get_moderator_dashboard" -> q.role \in {"admin", "moderator"}

\* C1: at every guarded endpoint a request whose token is missing, malformed,
\* wrongly signed or expired is answered 401 without any role lookup; one whose
\* role does not satisfy the guard is answered 403; in both cases the handler
\* body does not run and the users table is unchanged.  The body of a guarded
\* endpoint runs only for a verified principal whose role satisfied the guard.
C1_FailClosed ==
    [][\A r \in Slots :
          /\ (Arrives(r) /\ req'[r].kind \in GuardedKinds
                 /\ BadToken(req'[r].token, now))
             => /\ Rejected(req'[r], 401)
                /\ req'[r].lookups = 0
                /\ ~req'[r].ran
                /\ users' = users
                /\ sessions' = sessions
          /\ (Arrives(r) /\ req'[r].kind \in GuardedKinds
                 /\ ~BadToken(req'[r].token, now))
             => Accepted(req'[r]) /\ req'[r].lookups = 0
          /\ (ReadsRole(r) /\ ~GuardSatisfied(req'[r]))
             => /\ Rejected(req'[r], 403)
                /\ ~req'[r].ran
                /\ users' = users
          /\ (req'[r].kind \in GuardedKinds /\ req'[r].ran)
             => /\ req'[r].user # NoUser
                /\ req'[r].lookups = 1
                /\ GuardSatisfied(req'[r])]_vars

\* A caller who is no administrator was refused delete_user, and a forged token
\* was refused too.
C1_Witness ==
    \E r \in Slots :
        /\ req[r].kind = "delete_user"
        /\ Rejected(req[r], 403)
        /\ req[r].role = "moderator"
        /\ ~req[r].ran
        /\ find_by_id(req[r].user_id) # {}

----------------------------------------------------------------------------
(* C3: delete-user *)

\* C3: delete_user removes a row only when the role its guard read is admin,
\* the target exists and is not the caller; a caller who is no administrator
\* gets 403, an administrator naming the own row gets 400, a missing target
\* gets 404, and these three leave the table unchanged.  No row is removed by
\* a request made under that row's id, and nothing else removes rows.
C3_DeleteUser ==
    [][/\ \A r \in Slots :
            (req[r].kind = "delete_user" /\ Acts(r) /\ req[r].pc # "done")
            => LET q == req[r]
                   target == {u \in users : u.id = q.user_id}
               IN  /\ (q.pc = "guard" /\ req'[r].role # "admin")
                          => Rejected(req'[r], 403)
                   /\ (q.pc = "handler" /\ target = {})
                          => Rejected(req'[r], 404)
                   /\ (q.pc = "handler" /\ target # {} /\ q.user_id = q.user.id)
                          => Rejected(req'[r], 400)
                   /\ (q.pc = "handler" /\ target # {} /\ q.user_id # q.user.id)
                          => Rejected(req'[r], 200) /\ users' = users \ target
                   /\ req'[r].status \in {403, 400, 404} => users' = users
       /\ (users \ users' # {})
            => \E r \in Slots :
                  /\ req[r].kind = "delete_user" /\ req[r].pc = "handler"
                  /\ req[r].role = "admin"
                  /\ Rejected(req'[r], 200)
                  /\ \A u \in users \ users' :
                        u.id = req[r].user_id /\ u.id # req[r].user.id]_vars

\* An administrator named the own row and got 400; the row is still there.
C3_Witness ==
    \E r \in Slots :
        /\ req[r].kind = "delete_user"
        /\ Rejected(req[r], 400)
        /\ req[r].user_id = req[r].user.id
        /\ find_by_id(req[r].user.id) # {}

----------------------------------------------------------------------------
(* C4: resource access *)

RoleValues == Role \cup {None}

\* C4: user_can_access_resource is true exactly when the two ids are equal or
\* the role is admin or moderator; get_user_by_id and check_resource_access
\* answer 403 exactly when it is false.
C4_ResourceAccess ==
    /\ \A c \in 0 .. 7, t \in 0 .. 7, role \in RoleValues :
          user_can_access_resource(c, t, role)
              <=> (c = t \/ role = "admin" \/ role = "moderator")
    /\ user_can_access_resource(5, 5, "user")
    /\ ~user_can_access_resource(5, 7, "user")
    /\ user_can_access_resource(5, 7, "admin")
    /\ \A r \in Slots :
          (req[r].kind = "get_user_by_id" /\ req[r].pc = "done" /\ req[r].status # 401)
          => (req[r].status = 403
                 <=> ~(req[r].user.id = req[r].user_id
                          \/ req[r].role \in {"admin", "moderator"}))
    /\ \A i \in issued, t \in UserIds :
          LET user == [username |-> i.token.claims.sub, id |-> i.token.claims.id]
              role == IF \E u \in users : u.id = user.id
                      THEN (CHOOSE u \in users : u.id = user.id).role ELSE "guest"
          IN  check_resource_access(user, t) = 403
                  <=> ~(user.id = t \/ role \in {"admin", "moderator"})

\* A moderator read another user's row, which a plain caller may not.
C4_Witness ==
    \E r \in Slots :
        /\ req[r].kind = "get_user_by_id"
        /\ req[r].pc = "done"
        /\ req[r].status = 200
        /\ req[r].role = "moderator"
        /\ req[r].user.id # req[r].user_id

----------------------------------------------------------------------------
(* C5: the permission table *)

\* The table of the specification
PermissionTable(role) ==
    CASE role = "admin" -> {"read_users", "write_users", "delete_users",
                            "read_own_data", "write_own_data", "moderate_content",
                            "admin_access"}
      [] role = "moderator" -> {"read_users", "read_own_data", "write_own_data",
                                "moderate_content"}
      [] role = "user" -> {"read_own_data", "write_own_data"}
      [] role = "guest" -> {"read_own_data"}
      [] OTHER -> {}

\* C5: user_has_permission(role, permission) is true exactly when the table
\* lists the permission for the role, an unknown role has none, no step changes
\* the table, get_all_users is passed only by admin and moderator and
\* require_admin_access only by admin.
C5_PermissionTable ==
    [][/\ \A role \in RoleValues \cup {"superuser"}, permission \in Permission :
             user_has_permission(role, permission)
                 <=> permission \in PermissionTable(role)
       /\ ROLE_PERMISSIONS' = ROLE_PERMISSIONS
       /\ \A r \in Slots :
             /\ (req'[r].kind = "get_all_users" /\ req'[r].ran)
                    => req'[r].role \in {"admin", "moderator"}
             /\ (req'[r].kind = "get_all_users" /\ ReadsRole(r)
                    /\ req'[r].role \in {"admin", "moderator"})
                    => req'[r].ran
             /\ (req'[r].kind \in {"delete_user", "get_admin_stats"} /\ ReadsRole(r))
                    => (req'[r].pc = "handler" <=> req'[r].role = "admin")]_vars

\* A row without a role asked for the list of users and got 403.
C5_Witness ==
    \E r \in Slots :
        /\ req[r].kind = "get_all_users"
        /\ Rejected(req[r], 403)
        /\ req[r].role = None

----------------------------------------------------------------------------
(* C6: get_user_role *)

\* C6 as claimed: get_user_role returns guest when no row has the id, user when
\* the row's role is unset, and the persisted role otherwise; what it returns
\* is always one of admin, moderator, user, guest.
C6_RoleOfUser ==
    [][\A r \in Slots :
          ReadsRole(r)
          => LET row == {u \in users : u.id = req'[r].user.id}
             IN  /\ req'[r].role \in {"admin", "moderator", "user", "guest"}
                 /\ row = {} => req'[r].role = "guest"
                 /\ \A u \in row :
                       req'[r].role = IF u.role = None THEN "user" ELSE u.role]_vars

----------------------------------------------------------------------------
(* C7: login *)

\* The one response of a failed login
IncorrectLogin ==
    [status |-> 401, detail |-> "Incorrect username or password",
     access_token |-> NoToken]

LoginResponse(q) ==
    [status |-> q.status, detail |-> q.detail, access_token |-> q.access_token]

\* C7: login returns a bearer token for the user exactly when a row with the
\* username exists and the password verifies against its hash; every failed
\* login returns the same 401 response, whether the username is unknown or the
\* password wrong, and changes nothing in the table.
C7_Login ==
    [][\A r \in Slots :
          (req[r].kind = "login_for_access_token" /\ req[r].pc = "handler" /\ Acts(r))
          => LET q == req[r]
                 match == {u \in users :
                              /\ u.username = q.username
                              /\ u.hashed_password =
                                     pwd_hash(q.password, u.hashed_password.salt)}
             IN  /\ req'[r].pc = "done"
                 /\ match # {}
                    => /\ req'[r].status = 200
                       /\ \E u \in match :
                             /\ req'[r].access_token.claims.sub = u.username
                             /\ req'[r].access_token.claims.id = u.id
                       /\ ~BadToken(req'[r].access_token, now)
                 /\ match = {}
                    => /\ LoginResponse(req'[r]) = IncorrectLogin
                       /\ issued' = issued
                 /\ users' = users /\ seq' = seq]_vars

\* A wrong password for a stored username, and the failed response.
C7_Witness ==
    \E r \in Slots :
        /\ req[r].kind = "login_for_access_token"
        /\ LoginResponse(req[r]) = IncorrectLogin
        /\ \E u \in users : u.username = req[r].username
        /\ req[r].password = "guess"

----------------------------------------------------------------------------
(* C8: one row per username and per id *)

\* C8: no two rows share a username or an id; a registration with a stored
\* username is rejected and leaves the table unchanged; a successful one adds
\* exactly one row, with role user and a bcrypt hash of the password.
C8_UniqueUsers ==
    [][/\ \A u \in users', v \in users' :
             (u.username = v.username \/ u.id = v.id) => u = v
       /\ \A r \in Slots :
             (req[r].kind = "create_user" /\ req[r].pc = "handler" /\ Acts(r))
             => LET q == req[r]
                IN  IF \E u \in users : u.username = q.username
                    THEN /\ req'[r].pc = "done" /\ req'[r].status >= 400
                         /\ users' = users
                    ELSE /\ Rejected(req'[r], 201)
                         /\ users \subseteq users'
                         /\ Cardinality(users' \ users) = 1
                         /\ \A u \in users' \ users :
                               /\ u.username = q.username
                               /\ u.role = "user"
                               /\ u.hashed_password.scheme = "bcrypt"
                               /\ \E salt \in Salts :
                                     u.hashed_password.digest = <<salt, q.password>>]_vars

\* A second registration of a username was rejected after the first succeeded.
C8_Witness ==
    \E r \in Slots :
        /\ req[r].kind = "create_user"
        /\ req[r].pc = "done"
        /\ req[r].status >= 400
        /\ \E u \in users : u.username = req[r].username /\ u.id > 3

----------------------------------------------------------------------------
(* C9: a token after its subject is deleted *)

\* C9 as claimed: a token stays valid while signed and unexpired; once no row
\* has its id the role read for it is guest and list-all-users, delete-user,
\* admin-stats, moderator-dashboard and get-user-by-id for another id answer
\* 403; and the role read for a token is never the role of another user than
\* the one it was issued to.
C9_StaleToken ==
    [][\A r \in Slots :
          ReadsRole(r)
          => LET q == req'[r]
                 row == {u \in users : u.id = q.user.id}
             IN  /\ row = {}
                    => /\ q.role = "guest"
                       /\ (q.kind \in {"get_all_users", "delete_user",
                                       "get_admin_stats", "get_moderator_dashboard"}
                              \/ (q.kind = "get_user_by_id" /\ q.user_id # q.user.id))
                          => Rejected(q, 403)
                 /\ \A u \in row : u.username = q.user.username]_vars

\* The part of C9 that holds: the same without its last clause.
C9_StaleTokenDenied ==
    [][\A r \in Slots :
          ReadsRole(r)
          => LET q == req'[r]
                 row == {u \in users : u.id = q.user.id}
             IN  row = {}
                 => /\ q.role = "guest"
                    /\ (q.kind \in {"get_all_users", "delete_user",
                                    "get_admin_stats", "get_moderator_dashboard"}
                           \/ (q.kind = "get_user_by_id" /\ q.user_id # q.user.id))
                       => Rejected(q, 403)]_vars

----------------------------------------------------------------------------
(* C10: sessions *)

\* C10: a session is open only for a request in flight: when a request has
\* ended, on whatever status, none of its sessions is open, and when no
\* request is in flight no session is open at all.
C10_SessionsClosed ==
    /\ \A s \in sessions : req[s[1]].pc # "idle"
    /\ (\A r \in Slots : req[r].pc = "idle") => sessions = {}
    /\ \A r \in Slots :
          req[r].pc = "handler"
          => \E s \in sessions : s[1] = r

\* A delete_user, whose guard and handler each opened a session, removed a
\* row and ended; no request is in flight and no session is open.
C10_Witness ==
    /\ \E u \in SeedUsers : u \notin users
    /\ \A r \in Slots : req[r].pc = "idle"
    /\ sessions = {}
    /\ started > 0

====
